---- MODULE Spec2Model ----
(***************************************************************************)
(* Model of bookwyrm/models/notification.py: the Notification table, the   *)
(* classmethods Notification.notify / Notification.unnotify and the signal *)
(* receivers that call them.                                               *)
(*                                                                         *)
(* The table is a set of rows; a row carries its primary key (id), so two  *)
(* rows with the same user, type and related objects are two rows.  The    *)
(* many-to-many fields related_users and related_reports are sets held in  *)
(* the row (deleting the row deletes its through-table rows with it).      *)
(* related_groups and related_list_items are never touched by this file    *)
(* and are left out.                                                       *)
(***************************************************************************)
EXTENDS Integers, FiniteSets, Sequences, TLC

\* ------------------------------------------------------------------ bounds
NumUsers == 3
NumStatuses == 2
MaxId == 2
NumProcs == 3
NumReports == 2
NumImportJobs == 2
MaxReactions == 3

\* ------------------------------------------------------------------ world
None == 0

Users == 1..NumUsers
Statuses == 1..NumStatuses
Procs == 1..NumProcs
Reports == 1..NumReports
ImportJobs == 1..NumImportJobs

\* User.local as read at line 40: user 1 is a remote (federated) account,
\* every other user is local.
local(u) == u # 1

\* The notification types this file passes to notify/unnotify/get_or_create.
NotifyTypes == {"FAVORITE", "BOOST", "REPLY", "MENTION"}

\* **kwargs of notify/unnotify: every call in the file passes
\* notification_type and related_status.  Two filter sets are tried.
Kwargs == {[notification_type |-> "FAVORITE", related_status |-> 1],
           [notification_type |-> "MENTION", related_status |-> 2]}

VARIABLES
    notifications,  \* the Notification table: a set of rows
    nextId,         \* the next primary key the table hands out
    procs,          \* concurrent callers: each one's call, position and
                    \* the `notification` object it holds
    statuses,       \* the Status rows: each one's author and deleted flag
    users,          \* the User rows: is_superuser and user_permissions
    reports,        \* the Report rows saved so far
    import_jobs,    \* the ImportJob rows: each one's user and complete flag
    favorites,      \* the Favorite rows: who favourited which status
    boosts          \* the Boost rows: who boosted which status

vars == <<notifications, nextId, procs, statuses, users, reports,
          import_jobs, favorites, boosts>>

\* ------------------------------------------------------------------ ORM
\* A database handle threaded through a handler: the rows, the pk sequence
\* and whether an exception escaped (raised).
DB(rows, nid) == [rows |-> rows, nextId |-> nid, raised |-> FALSE]

\* cls.objects.filter(user=user, **kwargs): kwargs is a record of the
\* fields the caller names; a field it does not name is not compared.
Matching(rows, user, kwargs) ==
    {n \in rows : /\ n.user = user
                  /\ \A f \in DOMAIN kwargs : n[f] = kwargs[f]}

\* The field defaults of lines 17-34.
Defaults ==
    [id |-> None,
     user |-> None,
     read |-> FALSE,
     notification_type |-> "",
     related_status |-> None,
     related_import |-> None,
     related_users |-> {},
     related_reports |-> {}]

\* A freshly inserted row: the fields the caller names, defaults elsewhere.
NewRow(id, user, kwargs) ==
    [f \in DOMAIN Defaults |->
        IF f = "id" THEN id
        ELSE IF f = "user" THEN user
        ELSE IF f \in DOMAIN kwargs THEN kwargs[f]
        ELSE Defaults[f]]

related_users_add_replaces(rows, id, related_user) ==
    {IF n.id = id THEN [n EXCEPT !.related_users = {related_user}] ELSE n
        : n \in rows}

\* notification.related_users.add(related_user): an insert into the
\* through table for the row with this pk (nothing if it is already there).
related_users_add(rows, id, related_user) ==
    {IF n.id = id THEN [n EXCEPT !.related_users = @ \cup {related_user}] ELSE n
        : n \in rows}

related_users_remove_everywhere(rows, id, related_user) ==
    {[n EXCEPT !.related_users = @ \ {related_user}] : n \in rows}

\* notification.related_users.remove(related_user)
related_users_remove(rows, id, related_user) ==
    {IF n.id = id THEN [n EXCEPT !.related_users = @ \ {related_user}] ELSE n
        : n \in rows}

\* notification.related_users.exists()
related_users_exists(rows, id) ==
    \E n \in rows : n.id = id /\ n.related_users # {}

\* notification.delete()
delete(rows, id) == {n \in rows : n.id # id}

\* notification.save() of the Python object `instance`: writes the columns
\* it was loaded with back to its row.  The many-to-many sets are not
\* columns, and neither is `unread` (line 47): the model's field is `read`.
save(rows, instance) ==
    {IF n.id = instance.columns.id
        THEN [n EXCEPT !.user = instance.columns.user,
                       !.read = instance.columns.read,
                       !.notification_type = instance.columns.notification_type,
                       !.related_status = instance.columns.related_status,
                       !.related_import = instance.columns.related_import]
        ELSE n
        : n \in rows}

get_or_create_always_creates(db, user, kwargs) ==
    [db |-> [db EXCEPT !.rows = @ \cup {NewRow(db.nextId, user, kwargs)},
                       !.nextId = @ + 1],
     id |-> db.nextId]

\* cls.objects.get_or_create(user=user, **kwargs): the one matching row, a
\* new row when there is none, MultipleObjectsReturned when there are more.
get_or_create(db, user, kwargs) ==
    LET m == Matching(db.rows, user, kwargs) IN
    IF m = {}
        THEN [db |-> [db EXCEPT !.rows = @ \cup {NewRow(db.nextId, user, kwargs)},
                                !.nextId = @ + 1],
              id |-> db.nextId]
    ELSE IF Cardinality(m) = 1
        THEN [db |-> db, id |-> (CHOOSE n \in m : TRUE).id]
    ELSE [db |-> [db EXCEPT !.raised = TRUE], id |-> None]

\* ------------------------------------------------------------------ notify
notify_without_guard(db, user, related_user, kwargs) ==
    LET g == get_or_create(db, user, kwargs) IN
    IF g.db.raised
        THEN [db EXCEPT !.raised = TRUE]
    ELSE LET loaded == CHOOSE n \in g.db.rows : n.id = g.id
             added == related_users_add(g.db.rows, g.id, related_user)
             instance == [columns |-> loaded, unread |-> TRUE]
         IN [g.db EXCEPT !.rows = save(added, instance)]

\* Notification.notify (lines 36-48), one transaction: an exception rolls
\* everything back and leaves the table as it was.
notify(db, user, related_user, kwargs) ==
    IF ~local(user) \/ user = related_user
        THEN db
    ELSE LET g == get_or_create(db, user, kwargs) IN
         IF g.db.raised
             THEN [db EXCEPT !.raised = TRUE]
         ELSE LET loaded == CHOOSE n \in g.db.rows : n.id = g.id
                  added == related_users_add(g.db.rows, g.id, related_user)
                  \* line 47: a new attribute on the Python object
                  instance == [columns |-> loaded, unread |-> TRUE]
              IN [g.db EXCEPT !.rows = save(added, instance)]

\* ------------------------------------------------------------------ unnotify
unnotify_deletes_unchecked(db, user, related_user, kwargs) ==
    LET m == Matching(db.rows, user, kwargs) IN
    IF m = {}
        THEN db
    ELSE IF Cardinality(m) > 1
        THEN [db EXCEPT !.raised = TRUE]
    ELSE LET id == (CHOOSE n \in m : TRUE).id
         IN [db EXCEPT !.rows = delete(related_users_remove(db.rows, id, related_user), id)]

unnotify_never_deletes(db, user, related_user, kwargs) ==
    LET m == Matching(db.rows, user, kwargs) IN
    IF m = {}
        THEN db
    ELSE IF Cardinality(m) > 1
        THEN [db EXCEPT !.raised = TRUE]
    ELSE LET id == (CHOOSE n \in m : TRUE).id
         IN [db EXCEPT !.rows = related_users_remove(db.rows, id, related_user)]

unnotify_absorbs_every_error(db, user, related_user, kwargs) ==
    LET m == Matching(db.rows, user, kwargs) IN
    IF Cardinality(m) # 1
        THEN db
    ELSE LET id == (CHOOSE n \in m : TRUE).id
             removed == related_users_remove(db.rows, id, related_user)
         IN IF ~related_users_exists(removed, id)
                THEN [db EXCEPT !.rows = delete(removed, id)]
                ELSE [db EXCEPT !.rows = removed]

\* Notification.unnotify (lines 50-59), run without interruption.
\* filter(...).get() raises DoesNotExist (caught, line 55) when nothing
\* matches and MultipleObjectsReturned (not caught) when several rows do.
unnotify(db, user, related_user, kwargs) ==
    LET m == Matching(db.rows, user, kwargs) IN
    IF m = {}
        THEN db
    ELSE IF Cardinality(m) > 1
        THEN [db EXCEPT !.raised = TRUE]
    ELSE LET id == (CHOOSE n \in m : TRUE).id
             removed == related_users_remove(db.rows, id, related_user)
         IN IF ~related_users_exists(removed, id)
                THEN [db EXCEPT !.rows = delete(removed, id)]
                ELSE [db EXCEPT !.rows = removed]

\* ------------------------------------------------------------------ receivers
\* Status.reply_parent: status 1 starts a thread, every later status
\* replies to the one before it.
reply_parent(s) == IF s = 1 THEN None ELSE s - 1

\* The Status object a post_save signal carries: its row, and the mentioned
\* users (instance.mention_users.all()) at the time of the save.
StatusInstance(s, mention_users) ==
    [id |-> s,
     user |-> statuses[s].user,
     reply_parent |-> reply_parent(s),
     mention_users |-> mention_users,
     deleted |-> statuses[s].deleted]

\* The Favorite or Boost object a signal carries: who reacted, to which
\* status (instance.status, instance.boosted_status).
Reaction(user, status) == [user |-> user, status |-> status]

\* A receiver's transaction: an exception undoes what the receiver did.
atomic(db, d) == IF d.raised THEN [db EXCEPT !.raised = TRUE] ELSE d

\* notify_on_fav (lines 72-82)
notify_on_fav(db, instance) ==
    atomic(db, notify(db, statuses[instance.status].user, instance.user,
                      [notification_type |-> "FAVORITE",
                       related_status |-> instance.status]))

\* notify_on_unfav (lines 85-96)
notify_on_unfav(db, instance) ==
    IF ~local(statuses[instance.status].user)
        THEN db
        ELSE unnotify(db, statuses[instance.status].user, instance.user,
                      [notification_type |-> "FAVORITE",
                       related_status |-> instance.status])

\* notify_user_on_boost (lines 137-153)
notify_user_on_boost(db, instance) ==
    IF \/ ~local(statuses[instance.status].user)
       \/ statuses[instance.status].user = instance.user
        THEN db
        ELSE atomic(db, notify(db, statuses[instance.status].user, instance.user,
                               [notification_type |-> "BOOST",
                                related_status |-> instance.status]))

\* notify_user_on_unboost (lines 156-165)
notify_user_on_unboost(db, instance) ==
    unnotify(db, statuses[instance.status].user, instance.user,
             [notification_type |-> "BOOST", related_status |-> instance.status])

\* Notification.objects.filter(related_status=instance).delete() (line 108)
delete_related_status(rows, status) == {n \in rows : n.related_status # status}

RECURSIVE notify_mentions_without_skip(_, _, _)
notify_mentions_without_skip(db, instance, remaining) ==
    IF remaining = {} \/ db.raised
        THEN db
    ELSE LET mention_user == CHOOSE u \in remaining : \A v \in remaining : u <= v
             rest == remaining \ {mention_user}
         IN IF ~local(mention_user)
                THEN notify_mentions_without_skip(db, instance, rest)
                ELSE notify_mentions_without_skip(
                         notify(db, mention_user, instance.user,
                                [notification_type |-> "MENTION",
                                 related_status |-> instance.id]),
                         instance, rest)

\* The loop of lines 123-134 over the mentioned users still to visit, in
\* primary-key order (the order decides only which pk a new row gets).
RECURSIVE notify_mentions(_, _, _)
notify_mentions(db, instance, remaining) ==
    IF remaining = {} \/ db.raised
        THEN db
    ELSE LET mention_user == CHOOSE u \in remaining : \A v \in remaining : u <= v
             rest == remaining \ {mention_user}
         IN IF \/ ~local(mention_user)
               \/ /\ instance.reply_parent # None
                  /\ mention_user = statuses[instance.reply_parent].user
                THEN notify_mentions(db, instance, rest)
                ELSE notify_mentions(
                         notify(db, mention_user, instance.user,
                                [notification_type |-> "MENTION",
                                 related_status |-> instance.id]),
                         instance, rest)

\* The reply branch, lines 111-121.
notify_reply(db, instance) ==
    IF /\ instance.reply_parent # None
       /\ statuses[instance.reply_parent].user # instance.user
       /\ local(statuses[instance.reply_parent].user)
        THEN notify(db, statuses[instance.reply_parent].user, instance.user,
                    [notification_type |-> "REPLY", related_status |-> instance.id])
        ELSE db

notify_user_on_mention_keeps_deleted(db, sender, instance) ==
    IF sender # "Status"
        THEN db
    ELSE IF instance.deleted
        THEN db
    ELSE atomic(db, notify_mentions(notify_reply(db, instance), instance,
                                    instance.mention_users))

\* notify_user_on_mention (lines 99-134), connected to every post_save.
notify_user_on_mention(db, sender, instance) ==
    IF sender # "Status"
        THEN db
    ELSE IF instance.deleted
        THEN [db EXCEPT !.rows = delete_related_status(db.rows, instance.id)]
    ELSE atomic(db, notify_mentions(notify_reply(db, instance), instance,
                                    instance.mention_users))

\* notification.related_reports.add(instance) (line 199)
related_reports_add(rows, id, report) ==
    {IF n.id = id THEN [n EXCEPT !.related_reports = @ \cup {report}] ELSE n
        : n \in rows}

\* The permission names of line 191.
ModeratorPermissions == {"moderate_user", "moderate_post"}

\* How many rows of the query of lines 190-193 are user u: the filter on
\* user_permissions__name joins the permissions table, and without
\* distinct() a user comes once per joined permission that passes the
\* filter (a superuser passes with each permission, or once with none).
admin_rows_superusers_only(u) ==
    IF users[u].is_superuser THEN 1 ELSE 0

admin_rows(u) ==
    IF users[u].is_superuser
        THEN IF users[u].user_permissions = {}
                 THEN 1
                 ELSE Cardinality(users[u].user_permissions)
        ELSE Cardinality(users[u].user_permissions \cap ModeratorPermissions)

\* The queryset `admins` from user u on, in primary-key order.
RECURSIVE admins(_)
admins(u) ==
    IF u > NumUsers
        THEN <<>>
        ELSE [i \in 1..admin_rows(u) |-> u] \o admins(u + 1)

\* The loop of lines 194-199 from the i-th row of the queryset on.
RECURSIVE notify_admins(_, _, _, _)
notify_admins(db, instance, queryset, i) ==
    IF i > Len(queryset) \/ db.raised
        THEN db
    ELSE LET g == get_or_create(db, queryset[i], [notification_type |-> "REPORT"])
         IN IF g.db.raised
                THEN g.db
                ELSE notify_admins(
                         [g.db EXCEPT !.rows = related_reports_add(@, g.id, instance)],
                         instance, queryset, i + 1)

\* notify_admins_on_report (lines 184-199)
notify_admins_on_report(db, instance) ==
    atomic(db, notify_admins(db, instance, admins(1), 1))

\* ------------------------------------------------------------------ calls
\* The local user and the filter set of notify_on_fav / notify_on_unfav.
ConcUser == CHOOSE u \in Users : local(u)
ConcKwargs == [notification_type |-> "FAVORITE", related_status |-> 1]

\* The table as a call finds it.
Here == DB(notifications, nextId)

\* No caller is running: the handlers below run one after the other.
NoProcs == [p \in Procs |-> [op |-> "none", related_user |-> None,
                             pc |-> "done", notification |-> None]]

\* Accounts with no permission at all.
PlainUsers == [u \in Users |-> [is_superuser |-> FALSE, user_permissions |-> {}]]

\* The statuses the filter sets refer to; the calls below never read them.
SomeStatuses == [s \in Statuses |-> [user |-> ConcUser, deleted |-> FALSE]]

\* Import jobs that nobody saves: the handlers of this section never read them.
NoImportJobs == [j \in ImportJobs |-> [user |-> ConcUser, complete |-> FALSE]]

Init ==
    /\ notifications = {}
    /\ nextId = 1
    /\ procs = NoProcs
    /\ statuses = SomeStatuses
    /\ users = PlainUsers
    /\ reports = {}
    /\ import_jobs = NoImportJobs
    /\ favorites = {}
    /\ boosts = {}

\* A handler's effect reaches the table; the pk sequence is capped at MaxId.
Commit(d) ==
    /\ d.nextId <= MaxId + 1
    /\ notifications' = d.rows
    /\ nextId' = d.nextId
    /\ UNCHANGED <<procs, statuses, users, reports, import_jobs, favorites, boosts>>

NotifyCall ==
    \E user \in Users, related_user \in Users, kwargs \in Kwargs :
        Commit(notify(DB(notifications, nextId), user, related_user, kwargs))

UnnotifyCall ==
    \E user \in Users, related_user \in Users, kwargs \in Kwargs :
        Commit(unnotify(DB(notifications, nextId), user, related_user, kwargs))

Next == NotifyCall \/ UnnotifyCall

Spec == Init /\ [][Next]_vars

\* ------------------------------------------------------------------ concurrent calls
\* NumProcs callers (request threads), each making one call of notify or
\* unnotify on the same user and filter set.  notify carries
\* @transaction.atomic (line 37) and is taken here as one indivisible step.
\* unnotify (lines 50-59) carries no transaction decorator, nor does its
\* caller notify_on_unfav (lines 85-96): each of its four queries is a
\* statement of its own, and other callers' steps may fall between them.

InitConc ==
    /\ notifications = {}
    /\ nextId = 1
    /\ procs \in [Procs -> [op : {"notify", "unnotify"},
                            related_user : Users \ {ConcUser},
                            pc : {"start"},
                            notification : {None}]]
    /\ statuses = SomeStatuses
    /\ users = PlainUsers
    /\ reports = {}
    /\ import_jobs = NoImportJobs
    /\ favorites = {}
    /\ boosts = {}

\* notify, lines 38-48, in its transaction.
NotifyTxn(p) ==
    /\ procs[p].op = "notify"
    /\ procs[p].pc = "start"
    /\ LET d == notify(DB(notifications, nextId), ConcUser,
                       procs[p].related_user, ConcKwargs)
       IN /\ notifications' = d.rows
          /\ nextId' = d.nextId
    /\ procs' = [procs EXCEPT ![p].pc = "done"]
    /\ UNCHANGED <<statuses, users, reports, import_jobs, favorites, boosts>>

\* unnotify, lines 53-56: the lookup.
UnnotifyGet(p) ==
    /\ procs[p].op = "unnotify"
    /\ procs[p].pc = "start"
    /\ LET m == Matching(notifications, ConcUser, ConcKwargs) IN
       IF Cardinality(m) = 1
           THEN procs' = [procs EXCEPT ![p].pc = "remove",
                              ![p].notification = (CHOOSE n \in m : TRUE).id]
           ELSE procs' = [procs EXCEPT ![p].pc = "done"]
    /\ UNCHANGED <<notifications, nextId, statuses, users, reports, import_jobs, favorites, boosts>>

\* unnotify, line 57.
UnnotifyRemove(p) ==
    /\ procs[p].pc = "remove"
    /\ notifications' = related_users_remove(notifications, procs[p].notification,
                                             procs[p].related_user)
    /\ procs' = [procs EXCEPT ![p].pc = "exists"]
    /\ UNCHANGED <<nextId, statuses, users, reports, import_jobs, favorites, boosts>>

\* unnotify, line 58.
UnnotifyExists(p) ==
    /\ procs[p].pc = "exists"
    /\ procs' = [procs EXCEPT ![p].pc =
                    IF related_users_exists(notifications, procs[p].notification)
                        THEN "done" ELSE "delete"]
    /\ UNCHANGED <<notifications, nextId, statuses, users, reports, import_jobs, favorites, boosts>>

\* unnotify, line 59.
UnnotifyDelete(p) ==
    /\ procs[p].pc = "delete"
    /\ notifications' = delete(notifications, procs[p].notification)
    /\ procs' = [procs EXCEPT ![p].pc = "done"]
    /\ UNCHANGED <<nextId, statuses, users, reports, import_jobs, favorites, boosts>>

NextConc ==
    \E p \in Procs :
        \/ NotifyTxn(p)
        \/ UnnotifyGet(p)
        \/ UnnotifyRemove(p)
        \/ UnnotifyExists(p)
        \/ UnnotifyDelete(p)

SpecConc == InitConc /\ [][NextConc]_vars

\* ------------------------------------------------------------------ signals
\* The post_save and post_delete signals of Favorite, Boost and Status,
\* delivered one after the other.  Every status has an author, chosen at
\* the start; a status is deleted by saving it with its deleted flag set,
\* and stays deleted.
InitEvents ==
    /\ notifications = {}
    /\ nextId = 1
    /\ procs = NoProcs
    /\ statuses \in [Statuses -> [user : Users, deleted : {FALSE}]]
    /\ users = PlainUsers
    /\ reports = {}
    /\ import_jobs = NoImportJobs
    /\ favorites = {}
    /\ boosts = {}

\* post_save of a Favorite: notify_on_fav, and notify_user_on_mention,
\* which returns at once for a sender that is no Status.
FavoriteSaved ==
    \E user \in Users, status \in Statuses :
        LET instance == Reaction(user, status) IN
        Commit(notify_user_on_mention(notify_on_fav(Here, instance),
                                      "Favorite", instance))

\* post_delete of a Favorite.
FavoriteDeleted ==
    \E user \in Users, status \in Statuses :
        Commit(notify_on_unfav(Here, Reaction(user, status)))

\* post_save of a Boost: notify_user_on_boost, and notify_user_on_mention.
\* The Boost class is imported (line 5), not defined here; were it a
\* subclass of Status, notify_user_on_mention would go on with the boost
\* as instance, which no notification has as related status (line 151
\* relates the boosted status) and which mentions nobody.
BoostSaved ==
    \E user \in Users, status \in Statuses :
        LET instance == Reaction(user, status) IN
        Commit(notify_user_on_mention(notify_user_on_boost(Here, instance),
                                      "Boost", instance))

\* post_delete of a Boost.
BoostDeleted ==
    \E user \in Users, status \in Statuses :
        Commit(notify_user_on_unboost(Here, Reaction(user, status)))

\* post_save of a Status, saved as it is or with its deleted flag set.
StatusSaved ==
    \E s \in Statuses, mention_users \in SUBSET Users, set_deleted \in BOOLEAN :
        LET saved == [statuses EXCEPT ![s].deleted = @ \/ set_deleted]
            instance == [StatusInstance(s, mention_users)
                            EXCEPT !.deleted = saved[s].deleted]
            d == notify_user_on_mention(Here, "Status", instance)
        IN /\ d.nextId <= MaxId + 1
           /\ notifications' = d.rows
           /\ nextId' = d.nextId
           /\ statuses' = saved
           /\ UNCHANGED <<procs, users, reports, import_jobs, favorites, boosts>>

NextEvents ==
    \/ FavoriteSaved
    \/ FavoriteDeleted
    \/ BoostSaved
    \/ BoostDeleted
    \/ StatusSaved

SpecEvents == InitEvents /\ [][NextEvents]_vars

\* ------------------------------------------------------------------ reports
\* The accounts of an instance: plain users, a superuser, moderators holding
\* one or both moderation permissions, and a user holding another one.
Accounts ==
    {[is_superuser |-> FALSE, user_permissions |-> {}],
     [is_superuser |-> TRUE, user_permissions |-> {}],
     [is_superuser |-> FALSE, user_permissions |-> {"moderate_post"}],
     [is_superuser |-> FALSE, user_permissions |-> {"moderate_user", "moderate_post"}],
     [is_superuser |-> FALSE, user_permissions |-> {"edit_books"}]}

InitReports ==
    /\ notifications = {}
    /\ nextId = 1
    /\ procs = NoProcs
    /\ statuses = SomeStatuses
    /\ users \in [Users -> Accounts]
    /\ reports = {}
    /\ import_jobs = NoImportJobs
    /\ favorites = {}
    /\ boosts = {}

\* post_save of a Report, created or saved again: notify_admins_on_report,
\* and notify_user_on_mention, which returns at once.
ReportSaved ==
    \E instance \in Reports :
        LET d == notify_user_on_mention(notify_admins_on_report(Here, instance),
                                        "Report", instance)
        IN
        /\ d.nextId <= MaxId + 1
        /\ notifications' = d.rows
        /\ nextId' = d.nextId
        /\ reports' = reports \cup {instance}
        /\ UNCHANGED <<procs, statuses, users, import_jobs, favorites, boosts>>

NextReports == ReportSaved

SpecReports == InitReports /\ [][NextReports]_vars

\* ------------------------------------------------------------------ imports
\* Notification.objects.create(user=..., **kwargs) (line 177): an insert,
\* whatever the table holds already.
create(db, user, kwargs) ==
    [db EXCEPT !.rows = @ \cup {NewRow(db.nextId, user, kwargs)},
               !.nextId = @ + 1]

\* The update_fields a post_save signal carries: None (save() without
\* update_fields), or the names the caller gave.  save() with an empty list
\* returns before it sends the signal.
UpdateFields ==
    {[none |-> TRUE, names |-> {}],
     [none |-> FALSE, names |-> {"complete"}],
     [none |-> FALSE, names |-> {"retry"}],
     [none |-> FALSE, names |-> {"complete", "retry"}]}

\* update_fields or [] (line 174)
update_fields_or_empty(update_fields) ==
    IF update_fields.none THEN {} ELSE update_fields.names

\* The ImportJob object a post_save signal carries: its user, and the
\* complete flag of the object that was saved.
ImportJobInstance(job, complete) ==
    [id |-> job, user |-> import_jobs[job].user, complete |-> complete]

notify_user_on_import_complete_ignores_update_fields(db, instance, update_fields) ==
    IF ~instance.complete
        THEN db
        ELSE create(db, instance.user,
                    [notification_type |-> "IMPORT", related_import |-> instance.id])

\* notify_user_on_import_complete (lines 168-181)
notify_user_on_import_complete(db, instance, update_fields) ==
    IF \/ ~instance.complete
       \/ "complete" \notin update_fields_or_empty(update_fields)
        THEN db
        ELSE create(db, instance.user,
                    [notification_type |-> "IMPORT", related_import |-> instance.id])

\* Every import job has a user, chosen at the start, and is not complete.
InitImports ==
    /\ notifications = {}
    /\ nextId = 1
    /\ procs = NoProcs
    /\ statuses = SomeStatuses
    /\ users = PlainUsers
    /\ reports = {}
    /\ import_jobs \in [ImportJobs -> [user : Users, complete : {FALSE}]]
    /\ favorites = {}
    /\ boosts = {}

\* post_save of an ImportJob saved with the given complete flag:
\* notify_user_on_import_complete, and notify_user_on_mention, which
\* returns at once.  The flag reaches the row when the save writes it.
ImportJobSaved ==
    \E job \in ImportJobs, complete \in BOOLEAN, update_fields \in UpdateFields :
        LET instance == ImportJobInstance(job, complete)
            d == notify_user_on_mention(
                     notify_user_on_import_complete(Here, instance, update_fields),
                     "ImportJob", instance)
        IN /\ d.nextId <= MaxId + 1
           /\ notifications' = d.rows
           /\ nextId' = d.nextId
           /\ import_jobs' =
                 [import_jobs EXCEPT ![job].complete =
                     IF update_fields.none \/ "complete" \in update_fields.names
                         THEN complete ELSE @]
           /\ UNCHANGED <<procs, statuses, users, reports, favorites, boosts>>

\* A call of unnotify (lines 50-59) with the filter set of an import
\* notification; an exception that escapes it leaves the table as it was.
UnnotifyImportCall ==
    \E user \in Users, related_user \in Users, job \in ImportJobs :
        Commit(unnotify(Here, user, related_user,
                        [notification_type |-> "IMPORT", related_import |-> job]))

NextImports == ImportJobSaved \/ UnnotifyImportCall

SpecImports == InitImports /\ [][NextImports]_vars

\* ------------------------------------------------------------------ read state
\* The read flag (line 18) is set by the UI layer, which shows a user their
\* notifications and marks one as read.
mark_read(rows, id) ==
    {IF n.id = id THEN [n EXCEPT !.read = TRUE] ELSE n : n \in rows}

MarkRead ==
    \E n \in notifications :
        /\ ~n.read
        /\ notifications' = mark_read(notifications, n.id)
        /\ UNCHANGED <<nextId, procs, statuses, users, reports,
                       import_jobs, favorites, boosts>>

\* post_save of a Status saved with its deleted flag set (lines 107-109).
StatusDeleted ==
    \E s \in Statuses :
        LET saved == [statuses EXCEPT ![s].deleted = TRUE]
            instance == [StatusInstance(s, {}) EXCEPT !.deleted = TRUE]
            d == notify_user_on_mention(Here, "Status", instance)
        IN /\ notifications' = d.rows
           /\ nextId' = d.nextId
           /\ statuses' = saved
           /\ UNCHANGED <<procs, users, reports, import_jobs, favorites, boosts>>

\* Calls of notify and unnotify, deletions of statuses and the UI layer
\* marking notifications as read, one after the other.
NextRead == NotifyCall \/ UnnotifyCall \/ MarkRead \/ StatusDeleted

SpecRead == Init /\ [][NextRead]_vars

\* ------------------------------------------------------------------ reactions
\* The Favorite and Boost rows next to the notifications about them: a
\* pair <<user, status>> is in favorites (boosts) while that user has a
\* Favorite (Boost) on that status.  Signals are handled one after the
\* other; no status is deleted, and at most MaxReactions Favorite and Boost
\* rows exist at a time.

\* The authors of the statuses: one local user wrote them all, or a remote
\* user wrote the first and another local user the others.
ReactionStatuses ==
    {[s \in Statuses |-> [user |-> ConcUser, deleted |-> FALSE]],
     [s \in Statuses |-> [user |-> IF s = 1 THEN 1 ELSE NumUsers,
                           deleted |-> FALSE]]}

InitReactions ==
    /\ notifications = {}
    /\ nextId = 1
    /\ procs = NoProcs
    /\ statuses \in ReactionStatuses
    /\ users = PlainUsers
    /\ reports = {}
    /\ import_jobs = NoImportJobs
    /\ favorites = {}
    /\ boosts = {}

\* What a handler leaves reaches the table, next to the Favorite and Boost
\* rows the event leaves.
CommitReaction(d, favs, bsts) ==
    /\ d.nextId <= MaxId + 1
    /\ Cardinality(favs) + Cardinality(bsts) <= MaxReactions
    /\ notifications' = d.rows
    /\ nextId' = d.nextId
    /\ favorites' = favs
    /\ boosts' = bsts
    /\ UNCHANGED <<procs, statuses, users, reports, import_jobs>>

\* A Favorite is created, or saved again: post_save (lines 72-82).
FavoriteAdded ==
    \E user \in Users, status \in Statuses :
        LET instance == Reaction(user, status) IN
        CommitReaction(notify_user_on_mention(notify_on_fav(Here, instance),
                                              "Favorite", instance),
                       favorites \cup {<<user, status>>}, boosts)

\* A Favorite that exists is deleted: post_delete (lines 85-96).
FavoriteRemoved ==
    \E user \in Users, status \in Statuses :
        /\ <<user, status>> \in favorites
        /\ CommitReaction(notify_on_unfav(Here, Reaction(user, status)),
                          favorites \ {<<user, status>>}, boosts)

\* A Boost is created, or saved again: post_save (lines 137-153).
BoostAdded ==
    \E user \in Users, status \in Statuses :
        LET instance == Reaction(user, status) IN
        CommitReaction(notify_user_on_mention(notify_user_on_boost(Here, instance),
                                              "Boost", instance),
                       favorites, boosts \cup {<<user, status>>})

\* A Boost that exists is deleted: post_delete (lines 156-165).
BoostRemoved ==
    \E user \in Users, status \in Statuses :
        /\ <<user, status>> \in boosts
        /\ CommitReaction(notify_user_on_unboost(Here, Reaction(user, status)),
                          favorites, boosts \ {<<user, status>>})

NextReactions ==
    \/ FavoriteAdded
    \/ FavoriteRemoved
    \/ BoostAdded
    \/ BoostRemoved

SpecReactions == InitReactions /\ [][NextReactions]_vars

\* ================================================================== claims
\* The row of `rows` with primary key id, if it is still there.
RowsWithId(rows, id) == {n \in rows : n.id = id}

\* C1: for every local user u, every r # u and every filter set f, after
\* notify(u, r, f) returns exactly one notification matches (u, f) and r is
\* among its related users; if a matching notification was there before
\* the call, no record is created and that record keeps every related user
\* it had.
C1_NotifyCreatesOrGrows ==
    \A user \in Users, related_user \in Users, kwargs \in Kwargs :
        (local(user) /\ user # related_user) =>
            LET d == notify(Here, user, related_user, kwargs)
                before == Matching(notifications, user, kwargs)
                after == Matching(d.rows, user, kwargs)
            IN ~d.raised =>
                /\ Cardinality(after) = 1
                /\ \A n \in after : related_user \in n.related_users
                /\ before # {} =>
                    /\ {n.id : n \in d.rows} = {n.id : n \in notifications}
                    /\ d.nextId = nextId
                    /\ \A b \in before : \E n \in after :
                          /\ n.id = b.id
                          /\ b.related_users \subseteq n.related_users

\* A notification that has aggregated two related users: notify has been
\* called on a notification that already existed.
C1_Witness ==
    \E n \in notifications :
        /\ local(n.user)
        /\ Cardinality(n.related_users) = 2
        /\ n.notification_type = "FAVORITE"

\* C2: notify(u, r, f) is a no-op whenever u is not local or u = r: no
\* notification is created and none is modified, whatever the table holds.
C2_NotifyNoOp ==
    \A user \in Users, related_user \in Users, kwargs \in Kwargs :
        (~local(user) \/ user = related_user) =>
            notify(Here, user, related_user, kwargs) = Here

\* A table that holds a notification of a local user for some filter set,
\* next to which the calls notify(remote, r, f) and notify(u, u, f) are
\* made.
C2_Witness ==
    /\ nextId > 1
    /\ \E n \in notifications, kwargs \in Kwargs :
          /\ Matching(notifications, n.user, kwargs) = {n}
          /\ n.user \notin n.related_users

\* C3: from an empty table, after any sequence of notify and unnotify calls
\* made one after the other there is at most one notification per (user,
\* notification type, related status).
C3_OnePerKey ==
    \A n1 \in notifications, n2 \in notifications :
        (/\ n1.user = n2.user
         /\ n1.notification_type = n2.notification_type
         /\ n1.related_status = n2.related_status) => n1 = n2

\* Two notifications of one user, for two filter sets, created by two
\* get_or_create calls, after several calls on each.
C3_Witness ==
    \E n1 \in notifications, n2 \in notifications :
        /\ n1.user = n2.user
        /\ n1.related_status # n2.related_status
        /\ Cardinality(n1.related_users) = 2
        /\ Cardinality(n2.related_users) = 2

\* C4: unnotify(u, r, f), when a notification matches (u, f), removes r
\* from its related users; the notification is deleted if and only if no
\* related user is left after the removal, and otherwise it is kept with
\* exactly the remaining related users.
C4_UnnotifyRemovesOrDeletes ==
    \A user \in Users, related_user \in Users, kwargs \in Kwargs :
        \A m \in Matching(notifications, user, kwargs) :
            LET d == unnotify(Here, user, related_user, kwargs)
                left == m.related_users \ {related_user}
            IN /\ ~d.raised
               /\ (RowsWithId(d.rows, m.id) = {}) <=> (left = {})
               /\ left # {} =>
                     RowsWithId(d.rows, m.id) = {[m EXCEPT !.related_users = left]}

\* A table in which a notification has been deleted by unnotify (its pk is
\* gone) and another one holds two related users, so that an unnotify call
\* keeps it.
C4_Witness ==
    /\ \E id \in 1..(nextId - 1) : RowsWithId(notifications, id) = {}
    /\ \E n \in notifications : Cardinality(n.related_users) = 2

\* C6: notify is idempotent: for every table and every (u, r, f), calling
\* notify(u, r, f) twice in a row leaves the same notifications, with the
\* same related users, as calling it once.
C6_NotifyIdempotent ==
    \A user \in Users, related_user \in Users, kwargs \in Kwargs :
        LET once == notify(Here, user, related_user, kwargs)
            twice == notify(once, user, related_user, kwargs)
        IN twice = once

\* The table after notify(u, r, f) on a notification that r is the only
\* related user of: a second call finds r there.
C6_Witness ==
    \E n \in notifications, kwargs \in Kwargs :
        /\ n \in Matching(notifications, n.user, kwargs)
        /\ Cardinality(n.related_users) = 1
        /\ nextId = 2

\* What a table holds, primary keys aside.
Content(rows) ==
    {[user |-> n.user, notification_type |-> n.notification_type,
      related_status |-> n.related_status, related_users |-> n.related_users]
        : n \in rows}

\* The call of caller p, run alone and without interruption.
RunAlone(db, p) ==
    IF procs[p].op = "notify"
        THEN notify(db, ConcUser, procs[p].related_user, ConcKwargs)
        ELSE unnotify(db, ConcUser, procs[p].related_user, ConcKwargs)

\* The tables the callers in `remaining` can leave when they run one after
\* the other, in every order.
RECURSIVE SerialOutcomes(_, _)
SerialOutcomes(db, remaining) ==
    IF remaining = {}
        THEN {Content(db.rows)}
        ELSE UNION {SerialOutcomes(RunAlone(db, p), remaining \ {p}) : p \in remaining}

\* C5: notify and unnotify each run their lookup and their mutation as one
\* atomic transaction, so under any interleaving of concurrent calls on the
\* same (user, filters) key the final table is the one some serial order of
\* the calls leaves.
C5_Serializable ==
    (\A p \in Procs : procs[p].pc = "done") =>
        Content(notifications) \in SerialOutcomes(DB({}, 1), Procs)

\* The notifications about status s.
About(rows, s) == {n \in rows : n.related_status = s}

\* The notifications of one type that user u has about status s.
Received(rows, u, type, s) ==
    {n \in rows : n.user = u /\ n.notification_type = type /\ n.related_status = s}

\* C7: when a status is saved with its deleted flag set, every notification
\* whose related status is that status is deleted, whatever its type, owner
\* or related users, and the save creates no notification.
C7_DeletedStatusClearsNotifications ==
    \A s \in Statuses, mention_users \in SUBSET Users :
        LET instance == [StatusInstance(s, mention_users) EXCEPT !.deleted = TRUE]
            d == notify_user_on_mention(Here, "Status", instance)
        IN /\ About(d.rows, s) = {}
           /\ d.rows = notifications \ About(notifications, s)
           /\ d.nextId = nextId

\* A status has been saved as deleted after a notification was created,
\* and the table holds no notification about it any more, while another
\* status still has notifications.
C7_Witness ==
    \E s \in Statuses :
        /\ statuses[s].deleted
        /\ About(notifications, s) = {}
        /\ \E id \in 1..(nextId - 1) : RowsWithId(notifications, id) = {}
        /\ notifications # {}

\* C8: when a non-deleted status that replies to a parent status is saved,
\* a mentioned user who is the author of the parent gets no MENTION
\* notification for it; if that user is local and is not the replying
\* author they have exactly one REPLY notification for it; every other
\* local mentioned user, the author aside, has exactly one MENTION
\* notification for it.
C8_ReplyAndMentions ==
    \A s \in Statuses, mention_users \in SUBSET Users :
        (reply_parent(s) # None /\ ~statuses[s].deleted) =>
            LET instance == StatusInstance(s, mention_users)
                d == notify_user_on_mention(Here, "Status", instance)
                author == statuses[s].user
                parent_author == statuses[reply_parent(s)].user
            IN /\ ~d.raised
               /\ parent_author \in mention_users =>
                     /\ Received(d.rows, parent_author, "MENTION", s) = {}
                     /\ (local(parent_author) /\ parent_author # author) =>
                           Cardinality(Received(d.rows, parent_author, "REPLY", s)) = 1
               /\ \A u \in mention_users \ {parent_author, author} :
                     local(u) =>
                        Cardinality(Received(d.rows, u, "MENTION", s)) = 1

\* A reply has been saved: the local author of its parent, who is not the
\* replying author, holds a REPLY notification for it, and a mentioned
\* user holds a MENTION notification about some status.
C8_Witness ==
    /\ \E s \in Statuses :
          /\ reply_parent(s) # None
          /\ statuses[reply_parent(s)].user # statuses[s].user
          /\ Received(notifications, statuses[reply_parent(s)].user, "REPLY", s) # {}
    /\ \E n \in notifications : n.notification_type = "MENTION"

\* Whether the query of lines 190-193 selects user u.
IsAdmin(u) ==
    \/ users[u].is_superuser
    \/ users[u].user_permissions \cap ModeratorPermissions # {}

\* C9: once a Report has been saved, every user who is a superuser or
\* holds moderate_user or moderate_post has exactly one REPORT
\* notification, which holds every report saved so far; a user who is
\* neither has no REPORT notification.
C9_AdminsHoldAllReports ==
    reports # {} =>
        \A u \in Users :
            LET mine == {n \in notifications :
                            n.user = u /\ n.notification_type = "REPORT"}
            IN IF IsAdmin(u)
                   THEN /\ Cardinality(mine) = 1
                        /\ \A n \in mine : reports \subseteq n.related_reports
                   ELSE mine = {}

\* Two reports have been saved on an instance with a moderator who is no
\* superuser and a user who is no admin.
C9_Witness ==
    /\ Cardinality(reports) = 2
    /\ \E u \in Users : IsAdmin(u) /\ ~users[u].is_superuser
    /\ \E u \in Users : ~IsAdmin(u)
    /\ notifications # {}

\* C10: in every state reached by Favorite, Boost and Status save and
\* delete events, no FAVORITE, BOOST, REPLY or MENTION notification belongs
\* to a non-local user, and none has its owner among its related users.
C10_LocalOwnerNotRelated ==
    \A n \in notifications :
        n.notification_type \in NotifyTypes =>
            /\ local(n.user)
            /\ n.user \notin n.related_users

\* A BOOST and a MENTION notification side by side, on an instance where
\* a remote user is the author of a status.
C10_Witness ==
    /\ \E n \in notifications : n.notification_type = "BOOST"
    /\ \E n \in notifications : n.notification_type = "MENTION"
    /\ \E s \in Statuses : ~local(statuses[s].user)

\* The IMPORT notifications about import job j.
ImportNotifications(rows, j) ==
    {n \in rows : n.notification_type = "IMPORT" /\ n.related_import = j}

\* C11: after any sequence of ImportJob save events there is at most one
\* IMPORT notification per (user, import job): repeated qualifying saves of
\* one import job are aggregated into one record.
C11_OneImportPerJob ==
    \A n1 \in notifications, n2 \in notifications :
        (/\ n1.notification_type = "IMPORT"
         /\ n2.notification_type = "IMPORT"
         /\ n1.user = n2.user
         /\ n1.related_import = n2.related_import) => n1 = n2

\* The filter sets unnotify is called with: those of the status
\* notifications and those of the import notifications.
UnnotifyKwargs ==
    Kwargs \cup {[notification_type |-> "IMPORT", related_import |-> j]
                    : j \in ImportJobs}

\* C12: unnotify(u, r, f), when no notification matches (u, f), returns
\* without raising and leaves the table unchanged; not-found is the only
\* error it absorbs: when several notifications match, the error of the
\* lookup escapes it.
C12_UnnotifyAbsorbsOnlyNotFound ==
    \A user \in Users, related_user \in Users, kwargs \in UnnotifyKwargs :
        LET m == Matching(notifications, user, kwargs)
            d == unnotify(Here, user, related_user, kwargs)
        IN /\ m = {} => d = Here
           /\ Cardinality(m) > 1 => d.raised

\* Two notifications match one (user, import job), none matches another
\* import job, and none matches the filter sets of the status notifications.
C12_Witness ==
    \E j1 \in ImportJobs, j2 \in ImportJobs :
        /\ Cardinality(Matching(notifications, import_jobs[j1].user,
                                [notification_type |-> "IMPORT",
                                 related_import |-> j1])) = 2
        /\ ImportNotifications(notifications, j2) = {}

\* C13: saving an ImportJob creates an IMPORT notification for the job's
\* user, linked to the job, if and only if the saved job is complete and
\* "complete" is among the update_fields of the save; any other save
\* creates no notification and changes nothing.
C13_ImportCompleteNotifies ==
    \A job \in ImportJobs, complete \in BOOLEAN, update_fields \in UpdateFields :
        LET instance == ImportJobInstance(job, complete)
            d == notify_user_on_import_complete(Here, instance, update_fields)
            created == [Defaults EXCEPT !.id = nextId,
                                        !.user = import_jobs[job].user,
                                        !.notification_type = "IMPORT",
                                        !.related_import = job]
        IN IF complete /\ ~update_fields.none /\ "complete" \in update_fields.names
               THEN /\ created \notin notifications
                    /\ d.rows = notifications \cup {created}
                    /\ d.nextId = nextId + 1
                    /\ ~d.raised
               ELSE d = Here

\* An import job was saved complete by a save that carried no
\* update_fields and has no notification; another one has exactly one.
C13_Witness ==
    \E j1 \in ImportJobs, j2 \in ImportJobs :
        /\ import_jobs[j1].complete
        /\ ImportNotifications(notifications, j1) = {}
        /\ Cardinality(ImportNotifications(notifications, j2)) = 1
        /\ nextId = 2

\* C14: after notify(u, r, f) takes effect on a notification that exists
\* already and had been marked read, the notification is unread again: its
\* persisted read flag is False after the call.
C14_NotifyMakesUnread ==
    \A user \in Users, related_user \in Users, kwargs \in Kwargs :
        (local(user) /\ user # related_user) =>
            \A m \in Matching(notifications, user, kwargs) :
                m.read =>
                    LET d == notify(Here, user, related_user, kwargs)
                    IN \A n \in RowsWithId(d.rows, m.id) : ~n.read

\* C16: in every state reached by notify and unnotify calls made one after
\* the other, every FAVORITE, BOOST, REPLY or MENTION notification has at
\* least one related user.
C16_NeverEmpty ==
    \A n \in notifications :
        n.notification_type \in NotifyTypes => n.related_users # {}

\* A table whose pk sequence is used up, in which unnotify has deleted a
\* notification and the one that is left holds a single related user.
C16_Witness ==
    /\ nextId = MaxId + 1
    /\ Cardinality(notifications) = 1
    /\ \E n \in notifications :
          /\ Cardinality(n.related_users) = 1
          /\ n.notification_type = "MENTION"

\* The rows of a table that do not match (user, kwargs).
NotMatching(rows, user, kwargs) == rows \ Matching(rows, user, kwargs)

\* C18: notify(u, r, f) and unnotify(u, r, f) change only notifications
\* matching (u, f), and the deletion of a status s changes only
\* notifications whose related status is s: every other notification keeps
\* its existence, its read flag and its related users.
C18_FrameEffects ==
    /\ \A user \in Users, related_user \in Users, kwargs \in Kwargs :
          /\ NotMatching(notify(Here, user, related_user, kwargs).rows, user, kwargs)
                = NotMatching(notifications, user, kwargs)
          /\ NotMatching(unnotify(Here, user, related_user, kwargs).rows, user, kwargs)
                = NotMatching(notifications, user, kwargs)
    /\ \A s \in Statuses :
          LET instance == [StatusInstance(s, {}) EXCEPT !.deleted = TRUE]
              d == notify_user_on_mention(Here, "Status", instance)
          IN d.rows \ About(d.rows, s) = notifications \ About(notifications, s)

\* A notification about status 2 that was marked read and holds two
\* related users is still there after status 1 was deleted and a
\* notification was removed.
C18_Witness ==
    /\ statuses[1].deleted
    /\ ~statuses[2].deleted
    /\ \E id \in 1..(nextId - 1) : RowsWithId(notifications, id) = {}
    /\ \E n \in notifications :
          /\ n.read
          /\ n.related_status = 2
          /\ Cardinality(n.related_users) = 2

\* The users other than its author who have a reaction (a pair of
\* `reactions`) on status s.
ReactingUsers(reactions, s) ==
    {u \in Users : <<u, s>> \in reactions} \ {statuses[s].user}

\* C15: with at most one Favorite (Boost) per (user, status) and events
\* handled one after the other, for every non-deleted status s of a local
\* author the FAVORITE (BOOST) notification of the author for s exists if
\* and only if some user other than the author has a Favorite (Boost) on s
\* now, and its related users are exactly those users.
C15_NotificationsFollowReactions ==
    \A s \in Statuses :
        (local(statuses[s].user) /\ ~statuses[s].deleted) =>
            LET favs == Received(notifications, statuses[s].user, "FAVORITE", s)
                bsts == Received(notifications, statuses[s].user, "BOOST", s)
            IN /\ (favs # {}) <=> (ReactingUsers(favorites, s) # {})
               /\ \A n \in favs : n.related_users = ReactingUsers(favorites, s)
               /\ (bsts # {}) <=> (ReactingUsers(boosts, s) # {})
               /\ \A n \in bsts : n.related_users = ReactingUsers(boosts, s)

\* A status of a local author who has favourited it themself, with one
\* Favorite of another user: the notification about it is the second one
\* the table has held, the first was deleted when its last Favorite or
\* Boost was removed.
C15_Witness ==
    \E s \in Statuses :
        /\ local(statuses[s].user)
        /\ <<statuses[s].user, s>> \in favorites
        /\ Cardinality(ReactingUsers(favorites, s)) = 1
        /\ RowsWithId(notifications, 1) = {}
        /\ \E n \in Received(notifications, statuses[s].user, "FAVORITE", s) :
              n.id = 2

\* C17: in every state reached by Status saves (also those that set the
\* deleted flag) and Favorite and Boost save and delete events, no
\* notification has as related status a status whose deleted flag is set.
C17_NoNotificationAboutDeletedStatus ==
    \A n \in notifications :
        n.related_status # None => ~statuses[n.related_status].deleted

====
